---- MODULE Spec2Model ----
(***************************************************************************)
(* The explore page of milanDSA: the pan/zoom viewport (DraggableCanvas)   *)
(* and the page controller (ExplorePage) that runs the                     *)
(* fetch -> preload -> pick center -> place pipeline.                      *)
(*                                                                         *)
(* Numbers.  scale is kept in thousandths (0.3 is 300, 1 is 1000, 3 is     *)
(* 3000): handleWheel multiplies deltaY by -0.001, so a wheel delta of d   *)
(* moves the scale by -d thousandths.  Pointer coordinates are integers.   *)
(***************************************************************************)
EXTENDS Integers, Sequences, FiniteSets, TLC

(* ------------------------------------------------------------------ *)
(* Bounds of the model                                                  *)
(* ------------------------------------------------------------------ *)
\* pointer coordinates clientX, clientY range over 0..MaxCoord
MaxCoord == 1
\* the pan offset is kept within -MaxPan..MaxPan on each axis
MaxPan == 1
\* a posts response carries at most MaxPosts posts
MaxPosts == 1
\* at most MaxRuns invocations of fetchPosts and handleSearch are started
MaxRuns == 2
\* at most MaxUploads invocations of handleUpload are started
MaxUploads == 2
\* at most MaxReaders FileReaders per file are waiting for onloadend
MaxReaders == 1

(* ------------------------------------------------------------------ *)
(* Program constants of DraggableCanvas                                 *)
(* ------------------------------------------------------------------ *)
\* useState(0.3)
InitScale == 300
\* Math.max(0.3, ...)
MinScale == 300
\* Math.min(..., 3)
MaxScale == 3000
\* setScale(1) in resetView
ResetScale == 1000
\* e.button !== 0
LeftButton == 0

VARIABLES
  \* DraggableCanvas state (useState)
  pan, scale, isDragging, dragStart,
  \* the handler that ran last
  handled,
  \* history: pan and pointer position at the latest drag start
  anchor,
  \* ExplorePage state (useState)
  posts, placedImages, imageDimensions, totalPosts, trendingHashtags,
  loading, searchQuery,
  \* the invocations of fetchPosts and handleSearch, each with its position
  \* in the async function and its local constants
  runs,
  \* ExplorePage state of the upload form (useState)
  student, uploadModalOpen, selectedImage, imagePreview, hashtags,
  hashtagInput, uploading,
  \* the FileReaders that have not yet fired onloadend
  readers,
  \* the invocations of handleUpload
  uploads

viewVars == <<pan, scale, isDragging, dragStart, handled, anchor>>
feedVars == <<posts, placedImages, imageDimensions, totalPosts,
              trendingHashtags, loading, searchQuery, runs>>
formVars == <<student, uploadModalOpen, selectedImage, imagePreview, hashtags,
              hashtagInput, uploading, readers, uploads>>
pageVars == <<posts, placedImages, imageDimensions, totalPosts,
              trendingHashtags, loading, searchQuery, runs,
              student, uploadModalOpen, selectedImage, imagePreview, hashtags,
              hashtagInput, uploading, readers, uploads>>
vars == <<pan, scale, isDragging, dragStart, handled, anchor,
          posts, placedImages, imageDimensions, totalPosts,
          trendingHashtags, loading, searchQuery, runs,
          student, uploadModalOpen, selectedImage, imagePreview, hashtags,
          hashtagInput, uploading, readers, uploads>>

(* ------------------------------------------------------------------ *)
(* Events                                                               *)
(* ------------------------------------------------------------------ *)
Coord == 0..MaxCoord
Point == [x : Coord, y : Coord]
Origin == [x |-> 0, y |-> 0]
\* e.button: left, middle, right
Buttons == {0, 1, 2}
\* e.touches.length of a touchstart or touchmove
TouchCounts == {1, 2}
\* deltaY of a wheel event, in the units handleWheel scales by 0.001
WheelDeltas == {-5000, -1350, 1350, 5000}

\* e.touches: the first touch point anywhere, the further ones at the origin
TouchList(p, n) == [i \in 1..n |-> IF i = 1 THEN p ELSE Origin]
TouchLists == {TouchList(p, n) : p \in Point, n \in TouchCounts}

\* the fields of an event that the handlers read
Event(button, p, touches, deltaY) ==
  [button |-> button, clientX |-> p.x, clientY |-> p.y,
   touches |-> touches, deltaY |-> deltaY]

MouseDownEvents == {Event(b, p, <<>>, 0) : b \in Buttons, p \in Point}
MouseMoveEvents == {Event(0, p, <<>>, 0) : p \in Point}
TouchStartEvents == {Event(0, Origin, t, 0) : t \in TouchLists}
TouchMoveEvents == {Event(0, Origin, t, 0) : t \in TouchLists}
WheelEvents == {Event(0, Origin, <<>>, d) : d \in WheelDeltas}

PanInRange(p) == p.x \in -MaxPan..MaxPan /\ p.y \in -MaxPan..MaxPan

(* ------------------------------------------------------------------ *)
(* DraggableCanvas handlers                                             *)
(* ------------------------------------------------------------------ *)
Min(a, b) == IF a < b THEN a ELSE b
Max(a, b) == IF a > b THEN a ELSE b

\* { x: clientX - pan.x, y: clientY - pan.y }
DragStartFor(cx, cy) == [x |-> cx - pan.x, y |-> cy - pan.y]

\* PanFor with the delta added to the current pan (accumulated, not anchored)
PanForAccumulated(cx, cy) ==
  [x |-> pan.x + (cx - dragStart.x), y |-> pan.y + (cy - dragStart.y)]

\* { x: clientX - dragStart.x, y: clientY - dragStart.y }
PanFor(cx, cy) == [x |-> cx - dragStart.x, y |-> cy - dragStart.y]

\* NewScale without the clamp
NewScaleUnclamped(deltaY) == scale + (0 - deltaY)

\* NewScale with the sign of the delta lost
NewScaleInverted(deltaY) == Min(Max(MinScale, scale + deltaY), MaxScale)

\* Math.min(Math.max(0.3, scale + delta), 3) with delta = e.deltaY * -0.001
NewScale(deltaY) == Min(Max(MinScale, scale + (0 - deltaY)), MaxScale)

\* MouseDownEffect that starts a drag with any button
MouseDownEffectAnyButton(e) ==
  [pan |-> pan, isDragging |-> TRUE,
   dragStart |-> DragStartFor(e.clientX, e.clientY)]

\* what each handler leaves in (pan, isDragging, dragStart)
MouseDownEffect(e) ==
  IF e.button # LeftButton
    THEN [pan |-> pan, isDragging |-> isDragging, dragStart |-> dragStart]
    ELSE [pan |-> pan, isDragging |-> TRUE,
          dragStart |-> DragStartFor(e.clientX, e.clientY)]

MouseMoveEffect(e) ==
  IF ~isDragging
    THEN [pan |-> pan, isDragging |-> isDragging, dragStart |-> dragStart]
    ELSE [pan |-> PanFor(e.clientX, e.clientY), isDragging |-> isDragging,
          dragStart |-> dragStart]

MouseUpEffect ==
  [pan |-> pan, isDragging |-> FALSE, dragStart |-> dragStart]

\* MouseLeaveEffect that leaves the drag flag alone
MouseLeaveKeepsDrag ==
  [pan |-> pan, isDragging |-> isDragging, dragStart |-> dragStart]

MouseLeaveEffect ==
  [pan |-> pan, isDragging |-> FALSE, dragStart |-> dragStart]

\* TouchStartEffect that anchors at the touch point, ignoring the current pan
TouchStartEffectNoPan(e) ==
  IF Len(e.touches) = 1
    THEN [pan |-> pan, isDragging |-> TRUE, dragStart |-> e.touches[1]]
    ELSE [pan |-> pan, isDragging |-> isDragging, dragStart |-> dragStart]

TouchStartEffect(e) ==
  IF Len(e.touches) = 1
    THEN [pan |-> pan, isDragging |-> TRUE,
          dragStart |-> DragStartFor(e.touches[1].x, e.touches[1].y)]
    ELSE [pan |-> pan, isDragging |-> isDragging, dragStart |-> dragStart]

\* TouchMoveEffect that follows the first touch point of any touch list
TouchMoveEffectAnyCount(e) ==
  IF ~isDragging
    THEN [pan |-> pan, isDragging |-> isDragging, dragStart |-> dragStart]
    ELSE [pan |-> PanFor(e.touches[1].x, e.touches[1].y),
          isDragging |-> isDragging, dragStart |-> dragStart]

TouchMoveEffect(e) ==
  IF ~isDragging \/ Len(e.touches) # 1
    THEN [pan |-> pan, isDragging |-> isDragging, dragStart |-> dragStart]
    ELSE [pan |-> PanFor(e.touches[1].x, e.touches[1].y),
          isDragging |-> isDragging, dragStart |-> dragStart]

TouchEndEffect ==
  [pan |-> pan, isDragging |-> FALSE, dragStart |-> dragStart]

\* one event delivered: React commits the handler's state updates together
Apply(handler, eff, newScale, newAnchor) ==
  /\ pan' = eff.pan
  /\ isDragging' = eff.isDragging
  /\ dragStart' = eff.dragStart
  /\ scale' = newScale
  /\ handled' = handler
  /\ anchor' = newAnchor

HandleMouseDown(e) ==
  /\ Apply("handleMouseDown", MouseDownEffect(e), scale,
           IF e.button = LeftButton
             THEN [pan |-> pan, pos |-> [x |-> e.clientX, y |-> e.clientY]]
             ELSE anchor)
  /\ UNCHANGED pageVars

HandleMouseMove(e) ==
  /\ PanInRange(MouseMoveEffect(e).pan)
  /\ Apply("handleMouseMove", MouseMoveEffect(e), scale, anchor)
  /\ UNCHANGED pageVars

HandleMouseUp ==
  /\ Apply("handleMouseUp", MouseUpEffect, scale, anchor)
  /\ UNCHANGED pageVars

HandleMouseLeave ==
  /\ Apply("handleMouseLeave", MouseLeaveEffect, scale, anchor)
  /\ UNCHANGED pageVars

HandleTouchStart(e) ==
  /\ Apply("handleTouchStart", TouchStartEffect(e), scale,
           IF Len(e.touches) = 1
             THEN [pan |-> pan, pos |-> e.touches[1]]
             ELSE anchor)
  /\ UNCHANGED pageVars

HandleTouchMove(e) ==
  /\ PanInRange(TouchMoveEffect(e).pan)
  /\ Apply("handleTouchMove", TouchMoveEffect(e), scale, anchor)
  /\ UNCHANGED pageVars

HandleTouchEnd ==
  /\ Apply("handleTouchEnd", TouchEndEffect, scale, anchor)
  /\ UNCHANGED pageVars

\* handleWheel: setScale(newScale)
HandleWheel(e) ==
  /\ Apply("handleWheel", [pan |-> pan, isDragging |-> isDragging, dragStart |-> dragStart],
           NewScale(e.deltaY), anchor)
  /\ UNCHANGED pageVars

\* ResetView that goes back to the scale of the first render
ResetViewToInitScale ==
  /\ Apply("resetView",
           [pan |-> Origin, isDragging |-> isDragging, dragStart |-> dragStart],
           InitScale, anchor)
  /\ UNCHANGED pageVars

\* ResetView that also takes the placed images off the canvas
ResetViewClearsPlacement ==
  /\ Apply("resetView",
           [pan |-> Origin, isDragging |-> isDragging, dragStart |-> dragStart],
           ResetScale, anchor)
  /\ placedImages' = [placedImages EXCEPT !.items = <<>>]
  /\ UNCHANGED <<posts, imageDimensions, totalPosts, trendingHashtags,
                 loading, searchQuery, runs>>
  /\ UNCHANGED formVars

\* ResetView that also drops the drag-start anchor
ResetViewReanchors ==
  /\ Apply("resetView",
           [pan |-> Origin, isDragging |-> isDragging, dragStart |-> Origin],
           ResetScale, anchor)
  /\ UNCHANGED pageVars

\* resetView: setPan({ x: 0, y: 0 }); setScale(1)
ResetView ==
  /\ Apply("resetView",
           [pan |-> Origin, isDragging |-> isDragging, dragStart |-> dragStart],
           ResetScale, anchor)
  /\ UNCHANGED pageVars

ViewInit ==
  /\ pan = Origin
  /\ scale = InitScale
  /\ isDragging = FALSE
  /\ dragStart = Origin
  /\ handled = "none"
  /\ anchor = [pan |-> Origin, pos |-> Origin]

ViewNext ==
  \/ \E e \in MouseDownEvents : HandleMouseDown(e)
  \/ \E e \in MouseMoveEvents : HandleMouseMove(e)
  \/ HandleMouseUp
  \/ HandleMouseLeave
  \/ \E e \in TouchStartEvents : HandleTouchStart(e)
  \/ \E e \in TouchMoveEvents : HandleTouchMove(e)
  \/ HandleTouchEnd
  \/ \E e \in WheelEvents : HandleWheel(e)
  \/ ResetView

(* ------------------------------------------------------------------ *)
(* ExplorePage: values                                                  *)
(* ------------------------------------------------------------------ *)
\* Arrays and Maps are objects: each is created once and two of them with
\* the same content are still two objects.  id names the creator: 0 for the
\* literals of the first render, the run number for an object that a run
\* received or built, -1 for "not assigned".
PostIds == 1..MaxPosts
RunIds == 1..MaxRuns

Arr(id, items) == [id |-> id, items |-> items]
DimMap(id, keys) == [id |-> id, keys |-> keys]
Placed(id, items) == [id |-> id, items |-> items]

NullArr == Arr(-1, <<>>)
NullMap == DimMap(-1, {})
NullCenter == 0
NoCall == [posts |-> NullArr, center |-> NullCenter, dims |-> NullMap]

Range(s) == {s[i] : i \in 1..Len(s)}

\* what the posts endpoint can answer: the first n posts, n = 0..MaxPosts
PostLists == {[i \in 1..n |-> i] : n \in 0..MaxPosts}
PostsData ==
  {[success |-> FALSE, posts |-> <<>>, total_count |-> 0]}
  \cup {[success |-> TRUE, posts |-> l, total_count |-> Len(l)] : l \in PostLists}

\* what the trending endpoint can answer
Tag == <<"a">>
TrendingData ==
  {[success |-> FALSE, trending |-> <<>>],
   [success |-> TRUE, trending |-> <<>>],
   [success |-> TRUE, trending |-> <<[hashtag |-> Tag, count |-> 1]>>]}

\* the text of the search box
Queries == {<<>>, <<" ">>, <<"a">>}

\* String.prototype.trim
RECURSIVE TrimLeft(_)
TrimLeft(s) == IF s # <<>> /\ Head(s) = " " THEN TrimLeft(Tail(s)) ELSE s
RECURSIVE TrimRight(_)
TrimRight(s) ==
  IF s # <<>> /\ s[Len(s)] = " " THEN TrimRight(SubSeq(s, 1, Len(s) - 1)) ELSE s
Trim(s) == TrimRight(TrimLeft(s))

(* ------------------------------------------------------------------ *)
(* lib/circular-placement                                               *)
(* ------------------------------------------------------------------ *)
\* preloadImageDimensions(list) resolves to a fresh Map from post id to
\* dimensions; a post whose image failed to load has no entry.  Here: every
\* image loads, or the last one of the list does not.
PreloadResults(list) ==
  {Range(list.items), Range(list.items) \ {list.items[Len(list.items)]}}

\* pickRandomCenter(list): one post of the list, or null for an empty list
PickRandomCenter(list) ==
  IF list.items = <<>> THEN {NullCenter} ELSE Range(list.items)

\* calculateCircularPlacement(list, center, dims) resolves to a fresh array
\* with one PlacedImage per post of the list that has dimensions (the
\* geometry it gives each of them is not part of this model)
CalculateCircularPlacement(id, call) ==
  Placed(id, SelectSeq(call.posts.items, LAMBDA p : p \in call.dims.keys))

(* ------------------------------------------------------------------ *)
(* ExplorePage: runs of fetchPosts and handleSearch                     *)
(* ------------------------------------------------------------------ *)
\* kind     "fetchPosts" or "handleSearch"
\* pc       the await the run is suspended at, "idle" before it starts,
\*          "done" after it returned, "unhandled" after a rejection left
\*          it uncaught
\* allPosts, dimensions   its local constants (filteredPosts is allPosts
\*          in handleSearch; center lives on in placeCall)
\* preloadArg, placeCall   the arguments it passed to preloadImageDimensions
\*          and to calculateCircularPlacement
\* calls    the library functions it has called
\* outcome  how its posts request ended: "unsuccessful" (success false),
\*          "empty" (success, zero posts), "placed", "caught" (an await
\*          rejected before that), "none" (not yet known)
IdleRun ==
  [kind |-> "none", pc |-> "idle", allPosts |-> NullArr, preloadArg |-> NullArr,
   dimensions |-> NullMap, placeCall |-> NoCall,
   calls |-> {}, outcome |-> "none"]

InFlight(r) == runs[r].pc \notin {"idle", "done", "unhandled"}
Started == {r \in RunIds : runs[r].pc # "idle"}
At(r, kind, pc) == runs[r].kind = kind /\ runs[r].pc = pc

\* a run that returned (or that has no further use for its locals) keeps
\* what it did, not its locals
Finished(run, outcome) ==
  [IdleRun EXCEPT !.kind = run.kind, !.pc = "done", !.calls = run.calls,
                  !.outcome = outcome]

\* a try block with only the posts request inside
TryAwaitsFetchOnly(kind) == {"fetch"}

\* the awaits inside the try block of fetchPosts (lines 73-108) and of
\* handleSearch (lines 191-212)
TryAwaits(kind) ==
  IF kind = "fetchPosts"
    THEN {"fetch", "preload", "place", "trending"}
    ELSE {"fetch", "preload", "place"}

\* a rejection of the await the run is suspended at reaches its catch block
Caught(run) == run.pc \in TryAwaits(run.kind)

\* the run after the await it is suspended at rejected: its catch block
\* logs the error and the function returns, or the rejection leaves the
\* function
AfterRejection(run) ==
  IF Caught(run)
    THEN Finished(run, IF run.outcome = "none" THEN "caught" ELSE run.outcome)
    ELSE [Finished(run, run.outcome) EXCEPT !.pc = "unhandled"]

NewRun(kind) == [IdleRun EXCEPT !.kind = kind, !.pc = "fetch"]

NextRunId == Cardinality(Started) + 1

\* PlaceCall reading the page state in place of the run's local constants
PlaceCallFromState(list, center, dimensions) ==
  [posts |-> posts, center |-> center, dims |-> imageDimensions]

\* the arguments of calculateCircularPlacement(allPosts, center, dimensions)
PlaceCall(list, center, dimensions) ==
  [posts |-> list, center |-> center, dims |-> dimensions]

\* the run after `const dimensions = await preloadImageDimensions(...)`,
\* pickRandomCenter and, for a center, the call of calculateCircularPlacement
AfterPreload(run, dimensions, center, skipTo) ==
  IF center # NullCenter
    THEN [run EXCEPT !.dimensions = dimensions,
                     !.calls = @ \cup {"pickRandomCenter",
                                       "calculateCircularPlacement"},
                     !.placeCall = PlaceCall(run.allPosts, center, dimensions),
                     !.pc = "place"]
    ELSE [run EXCEPT !.dimensions = dimensions,
                     !.calls = @ \cup {"pickRandomCenter"},
                     !.pc = skipTo]

\* a test of the response that takes every response for a success
SucceededAlways(data) == TRUE

\* if (data.success), if (trendingData.success)
Succeeded(data) == data.success

(* ---- fetchPosts ---- *)
\* fetchPosts() up to its first await: setLoading(true); fetch(...)
StartFetchPosts ==
  /\ loading' = TRUE
  /\ runs' = [runs EXCEPT ![NextRunId] = NewRun("fetchPosts")]

\* useEffect(() => { fetchPosts() }, [fetchPosts]) after the first render
Mount ==
  /\ Started = {}
  /\ StartFetchPosts
  /\ UNCHANGED <<posts, placedImages, imageDimensions, totalPosts,
                 trendingHashtags, searchQuery>>
  /\ UNCHANGED viewVars
  /\ UNCHANGED formVars

\* await fetch('/api/explore/posts') and await postsResponse.json() have
\* resolved (nothing happens between the two): lines 77-87 and 100
FetchPostsData(r, data) ==
  /\ At(r, "fetchPosts", "fetch")
  /\ IF Succeeded(data)
       THEN /\ posts' = Arr(r, data.posts)
            /\ totalPosts' = data.total_count
            /\ runs' = [runs EXCEPT ![r] =
                 IF Len(data.posts) > 0
                   THEN [@ EXCEPT !.allPosts = Arr(r, data.posts),
                                  !.preloadArg = Arr(r, data.posts),
                                  !.calls = @ \cup {"preloadImageDimensions"},
                                  !.pc = "preload"]
                   ELSE [@ EXCEPT !.outcome = "empty", !.pc = "trending"]]
       ELSE /\ runs' = [runs EXCEPT ![r].outcome = "unsuccessful",
                                    ![r].pc = "trending"]
            /\ UNCHANGED <<posts, totalPosts>>
  /\ UNCHANGED <<placedImages, imageDimensions, trendingHashtags, loading,
                 searchQuery>>
  /\ UNCHANGED viewVars
  /\ UNCHANGED formVars

\* await preloadImageDimensions(allPosts) resolves: lines 88-93
FetchPostsPreloaded(r, keys, center) ==
  /\ At(r, "fetchPosts", "preload")
  /\ keys \in PreloadResults(runs[r].preloadArg)
  /\ center \in PickRandomCenter(runs[r].allPosts)
  /\ imageDimensions' = DimMap(r, keys)
  /\ runs' = [runs EXCEPT ![r] = AfterPreload(@, DimMap(r, keys), center, "trending")]
  /\ UNCHANGED <<posts, placedImages, totalPosts, trendingHashtags, loading,
                 searchQuery>>
  /\ UNCHANGED viewVars
  /\ UNCHANGED formVars

\* await calculateCircularPlacement(...) resolves: lines 94 and 100
FetchPostsPlaced(r) ==
  /\ At(r, "fetchPosts", "place")
  /\ placedImages' = CalculateCircularPlacement(r, runs[r].placeCall)
  /\ runs' = [runs EXCEPT ![r] =
       [Finished(@, "placed") EXCEPT !.pc = "trending"]]
  /\ UNCHANGED <<posts, imageDimensions, totalPosts, trendingHashtags, loading,
                 searchQuery>>
  /\ UNCHANGED viewVars
  /\ UNCHANGED formVars

\* await fetch('/api/explore/trending?limit=5') and await
\* trendingResponse.json() have resolved: lines 100-107
FetchPostsTrendingData(r, data) ==
  /\ At(r, "fetchPosts", "trending")
  /\ trendingHashtags' = IF Succeeded(data) THEN data.trending ELSE trendingHashtags
  /\ loading' = FALSE
  /\ runs' = [runs EXCEPT ![r] = Finished(@, @.outcome)]
  /\ UNCHANGED <<posts, placedImages, imageDimensions, totalPosts, searchQuery>>
  /\ UNCHANGED viewVars
  /\ UNCHANGED formVars

\* any of the awaits rejects: catch, lines 108-111
FetchPostsCatch(r) ==
  /\ runs[r].kind = "fetchPosts"
  /\ InFlight(r)
  /\ loading' = IF Caught(runs[r]) THEN FALSE ELSE loading
  /\ runs' = [runs EXCEPT ![r] = AfterRejection(@)]
  /\ UNCHANGED <<posts, placedImages, imageDimensions, totalPosts,
                 trendingHashtags, searchQuery>>
  /\ UNCHANGED viewVars
  /\ UNCHANGED formVars

(* ---- handleSearch ---- *)
\* a test of the query that takes only the empty text for blank
BlankIfEmpty(query) == query = <<>>

\* !searchQuery.trim()
Blank(query) == Trim(query) = <<>>

\* handleSearch() up to its first await, or to its return for a blank query
HandleSearch ==
  /\ Started # {}
  /\ NextRunId <= MaxRuns
  /\ IF Blank(searchQuery)
       THEN StartFetchPosts
       ELSE /\ runs' = [runs EXCEPT ![NextRunId] = NewRun("handleSearch")]
            /\ UNCHANGED loading
  /\ UNCHANGED <<posts, placedImages, imageDimensions, totalPosts,
                 trendingHashtags, searchQuery>>
  /\ UNCHANGED viewVars
  /\ UNCHANGED formVars

\* await fetch(`/api/explore/posts?hashtag=...`) and await response.json()
\* have resolved: lines 192-200 and 208-210
SearchData(r, data) ==
  /\ At(r, "handleSearch", "fetch")
  /\ IF Succeeded(data)
       THEN /\ posts' = Arr(r, data.posts)
            /\ IF Len(data.posts) > 0
                 THEN /\ runs' = [runs EXCEPT ![r] =
                           [@ EXCEPT !.allPosts = Arr(r, data.posts),
                                     !.preloadArg = Arr(r, data.posts),
                                     !.calls = @ \cup {"preloadImageDimensions"},
                                     !.pc = "preload"]]
                      /\ UNCHANGED placedImages
                 ELSE /\ placedImages' = Placed(r, <<>>)
                      /\ runs' = [runs EXCEPT ![r] = Finished(@, "empty")]
       ELSE /\ runs' = [runs EXCEPT ![r] = Finished(@, "unsuccessful")]
            /\ UNCHANGED <<posts, placedImages>>
  /\ UNCHANGED <<imageDimensions, totalPosts, trendingHashtags, loading,
                 searchQuery>>
  /\ UNCHANGED viewVars
  /\ UNCHANGED formVars

\* await preloadImageDimensions(filteredPosts) resolves: lines 201-205
SearchPreloaded(r, keys, center) ==
  /\ At(r, "handleSearch", "preload")
  /\ keys \in PreloadResults(runs[r].preloadArg)
  /\ center \in PickRandomCenter(runs[r].allPosts)
  /\ imageDimensions' = DimMap(r, keys)
  /\ runs' = [runs EXCEPT ![r] =
       IF center # NullCenter
         THEN AfterPreload(@, DimMap(r, keys), center, "done")
         ELSE Finished(AfterPreload(@, DimMap(r, keys), center, "done"), "none")]
  /\ UNCHANGED <<posts, placedImages, totalPosts, trendingHashtags, loading,
                 searchQuery>>
  /\ UNCHANGED viewVars
  /\ UNCHANGED formVars

\* await calculateCircularPlacement(...) resolves: line 206
SearchPlaced(r) ==
  /\ At(r, "handleSearch", "place")
  /\ placedImages' = CalculateCircularPlacement(r, runs[r].placeCall)
  /\ runs' = [runs EXCEPT ![r] = Finished(@, "placed")]
  /\ UNCHANGED <<posts, imageDimensions, totalPosts, trendingHashtags, loading,
                 searchQuery>>
  /\ UNCHANGED viewVars
  /\ UNCHANGED formVars

\* any of the awaits rejects: catch, lines 212-214
SearchCatch(r) ==
  /\ runs[r].kind = "handleSearch"
  /\ InFlight(r)
  /\ runs' = [runs EXCEPT ![r] = AfterRejection(@)]
  /\ UNCHANGED <<posts, placedImages, imageDimensions, totalPosts,
                 trendingHashtags, loading, searchQuery>>
  /\ UNCHANGED viewVars
  /\ UNCHANGED formVars

(* ---- the search box ---- *)
\* The text is read by handleSearch only: once MaxRuns runs have started no
\* further search is modelled, and neither is further typing.
\* onChange={(e) => setSearchQuery(e.target.value)}
SetSearchQuery(q) ==
  /\ Started # {}
  /\ NextRunId <= MaxRuns
  /\ q # searchQuery
  /\ searchQuery' = q
  /\ UNCHANGED <<posts, placedImages, imageDimensions, totalPosts,
                 trendingHashtags, loading, runs>>
  /\ UNCHANGED viewVars
  /\ UNCHANGED formVars

\* handleTrendingClick: setSearchQuery(hashtag), for one of the hashtags on
\* display (trendingHashtags.slice(0, 3))
HandleTrendingClick(i) ==
  /\ NextRunId <= MaxRuns
  /\ i \in 1..Len(trendingHashtags)
  /\ searchQuery' = trendingHashtags[i].hashtag
  /\ UNCHANGED <<posts, placedImages, imageDimensions, totalPosts,
                 trendingHashtags, loading, runs>>
  /\ UNCHANGED viewVars
  /\ UNCHANGED formVars

(* ------------------------------------------------------------------ *)
(* ExplorePage: the upload form                                         *)
(* ------------------------------------------------------------------ *)
\* useState<... | null>(null): no student record yet
NullStudent == "null"
\* the record that fetchStudent receives for the signed-in student
Students == {"student"}
\* useState<File | null>(null)
NullFile == "null"
\* the files the user can choose
Files == {"photo"}
\* useState<string>(''): no preview
NoPreview == <<>>
\* reader.result of readAsDataURL(file)
DataURL(file) == <<"data:", file>>

\* what the user can type into the hashtag field
TagInputs ==
  {<<>>, <<"#">>, <<"A">>, <<" ", "#", "a", " ">>, <<"#", " ", "a">>}

\* String.prototype.replace(/^#/, '')
StripHash(s) == IF s # <<>> /\ Head(s) = "#" THEN Tail(s) ELSE s

\* String.prototype.toLowerCase, on the letters of TagInputs
LowerChar(c) == IF c = "A" THEN "a" ELSE IF c = "B" THEN "b" ELSE c
ToLowerCase(s) == [i \in 1..Len(s) |-> LowerChar(s[i])]

\* tag.trim().replace(/^#/, '').toLowerCase()
CleanTag(tag) == ToLowerCase(StripHash(Trim(tag)))

\* an includes that never finds the tag
IncludesNever(list, tag) == FALSE

\* Array.prototype.includes
Includes(list, tag) == \E i \in 1..Len(list) : list[i] = tag

\* what the upload endpoint can answer
UploadResponses == {[success |-> TRUE], [success |-> FALSE]}

\* alert('Failed to upload image: ' + data.error) and
\* alert('Failed to upload image')
AlertUnsuccessful == "Failed to upload image: error"
AlertThrown == "Failed to upload image"

\* pc      "idle" before the invocation, "upload" while it awaits the
\*         upload request, "refresh" while it awaits fetchPosts(), "done"
\*         after its finally block
\* child   the fetchPosts run it started, 0 for none
\* result  "success", "unsuccessful" (success false), "threw", "none"
\* alert   the message it passed to alert(), "none" for no alert
UploadIds == 1..MaxUploads
IdleUpload == [pc |-> "idle", child |-> 0, result |-> "none", alert |-> "none"]
UploadsStarted == {u \in UploadIds : uploads[u].pc # "idle"}
UploadsInFlight == {u \in UploadIds : uploads[u].pc \in {"upload", "refresh"}}
NextUploadId == Cardinality(UploadsStarted) + 1

\* the fields that handleUpload resets after a successful upload
ClearedForm ==
  [selectedImage |-> NullFile, imagePreview |-> NoPreview, hashtags |-> <<>>,
   uploadModalOpen |-> FALSE]
CurrentForm ==
  [selectedImage |-> selectedImage, imagePreview |-> imagePreview,
   hashtags |-> hashtags, uploadModalOpen |-> uploadModalOpen]

\* a handler that resets the form whatever the answer was
FormAfterUploadReset(data) == ClearedForm

\* lines 162-173: the form is reset in the success branch only
FormAfterUpload(data) == IF Succeeded(data) THEN ClearedForm ELSE CurrentForm

\* a handler that calls fetchPosts() without awaiting it
UploadNotAwaitingRefresh(upload, child) ==
  [upload EXCEPT !.pc = "done", !.child = child, !.result = "success"]

\* await fetchPosts(): the invocation is suspended until the run returns
UploadAwaitingRefresh(upload, child) ==
  [upload EXCEPT !.pc = "refresh", !.child = child, !.result = "success"]

\* an Upload button that stays enabled during an upload
UploadEnabledWhileUploading == selectedImage # NullFile

\* disabled={!selectedImage || uploading}
UploadEnabled == selectedImage # NullFile /\ ~uploading

(* ---- authentication effect ---- *)
\* fetchStudent resolves with the student's record: setStudent(data)
StudentLoaded ==
  /\ Started # {}
  /\ student = NullStudent
  /\ student' \in Students
  /\ UNCHANGED <<uploadModalOpen, selectedImage, imagePreview, hashtags,
                 hashtagInput, uploading, readers, uploads>>
  /\ UNCHANGED feedVars
  /\ UNCHANGED viewVars

(* ---- the modal and its image ---- *)
\* onClick={() => setUploadModalOpen(true)}
OpenUploadModal ==
  /\ Started # {}
  /\ ~uploadModalOpen
  /\ uploadModalOpen' = TRUE
  /\ UNCHANGED <<student, selectedImage, imagePreview, hashtags,
                 hashtagInput, uploading, readers, uploads>>
  /\ UNCHANGED feedVars
  /\ UNCHANGED viewVars

\* onClick={() => !uploading && setUploadModalOpen(false)}
CloseUploadModal ==
  /\ uploadModalOpen
  /\ ~uploading
  /\ uploadModalOpen' = FALSE
  /\ UNCHANGED <<student, selectedImage, imagePreview, hashtags,
                 hashtagInput, uploading, readers, uploads>>
  /\ UNCHANGED feedVars
  /\ UNCHANGED viewVars

\* handleImageSelect: the file input is rendered while no image is selected
HandleImageSelect(file) ==
  /\ uploadModalOpen
  /\ selectedImage = NullFile
  /\ readers[file] < MaxReaders
  /\ selectedImage' = file
  /\ readers' = [readers EXCEPT ![file] = @ + 1]
  /\ UNCHANGED <<student, uploadModalOpen, imagePreview, hashtags,
                 hashtagInput, uploading, uploads>>
  /\ UNCHANGED feedVars
  /\ UNCHANGED viewVars

\* reader.onloadend = () => { setImagePreview(reader.result as string) }
ImageLoadEnd(file) ==
  /\ readers[file] > 0
  /\ imagePreview' = DataURL(file)
  /\ readers' = [readers EXCEPT ![file] = @ - 1]
  /\ UNCHANGED <<student, uploadModalOpen, selectedImage, hashtags,
                 hashtagInput, uploading, uploads>>
  /\ UNCHANGED feedVars
  /\ UNCHANGED viewVars

\* the button over the preview: setSelectedImage(null); setImagePreview('')
RemoveImage ==
  /\ uploadModalOpen
  /\ selectedImage # NullFile
  /\ imagePreview # NoPreview
  /\ selectedImage' = NullFile
  /\ imagePreview' = NoPreview
  /\ UNCHANGED <<student, uploadModalOpen, hashtags, hashtagInput, uploading,
                 readers, uploads>>
  /\ UNCHANGED feedVars
  /\ UNCHANGED viewVars

(* ---- hashtags ---- *)
\* onChange={(e) => setHashtagInput(e.target.value)}
SetHashtagInput(text) ==
  /\ uploadModalOpen
  /\ text # hashtagInput
  /\ hashtagInput' = text
  /\ UNCHANGED <<student, uploadModalOpen, selectedImage, imagePreview,
                 hashtags, uploading, readers, uploads>>
  /\ UNCHANGED feedVars
  /\ UNCHANGED viewVars

\* addHashtag(tag), lines 132-138
AddHashtag(tag) ==
  LET cleanTag == CleanTag(tag) IN
    IF cleanTag # <<>> /\ ~Includes(hashtags, cleanTag)
      THEN /\ hashtags' = Append(hashtags, cleanTag)
           /\ hashtagInput' = <<>>
      ELSE UNCHANGED <<hashtags, hashtagInput>>

\* the Add button and the Enter key: addHashtag(hashtagInput)
AddTypedHashtag ==
  /\ uploadModalOpen
  /\ AddHashtag(hashtagInput)
  /\ UNCHANGED <<student, uploadModalOpen, selectedImage, imagePreview,
                 uploading, readers, uploads>>
  /\ UNCHANGED feedVars
  /\ UNCHANGED viewVars

\* a trending suggestion: addHashtag(item.hashtag), with
\* disabled={hashtags.includes(item.hashtag)}
AddTrendingHashtag(i) ==
  /\ uploadModalOpen
  /\ i \in 1..Len(trendingHashtags)
  /\ ~Includes(hashtags, trendingHashtags[i].hashtag)
  /\ AddHashtag(trendingHashtags[i].hashtag)
  /\ UNCHANGED <<student, uploadModalOpen, selectedImage, imagePreview,
                 uploading, readers, uploads>>
  /\ UNCHANGED feedVars
  /\ UNCHANGED viewVars

\* removeHashtag(tag), from the button of a tag on display
RemoveHashtag(tag) ==
  /\ uploadModalOpen
  /\ Includes(hashtags, tag)
  /\ hashtags' = SelectSeq(hashtags, LAMBDA t : t # tag)
  /\ UNCHANGED <<student, uploadModalOpen, selectedImage, imagePreview,
                 hashtagInput, uploading, readers, uploads>>
  /\ UNCHANGED feedVars
  /\ UNCHANGED viewVars

(* ---- handleUpload ---- *)
\* the Upload button: handleUpload() up to its first await, or to its
\* return without a student record (lines 146-159)
HandleUpload ==
  /\ uploadModalOpen
  /\ UploadEnabled
  /\ NextUploadId <= MaxUploads
  /\ NextRunId <= MaxRuns
  /\ IF selectedImage = NullFile \/ student = NullStudent
       THEN UNCHANGED <<uploading, uploads>>
       ELSE /\ uploading' = TRUE
            /\ uploads' = [uploads EXCEPT ![NextUploadId].pc = "upload"]
  /\ UNCHANGED <<student, uploadModalOpen, selectedImage, imagePreview,
                 hashtags, hashtagInput, readers>>
  /\ UNCHANGED feedVars
  /\ UNCHANGED viewVars

\* await fetch('/api/explore/upload', ...) and await response.json() have
\* resolved: lines 157-176, and the finally block for an unsuccessful answer
UploadData(u, data) ==
  /\ uploads[u].pc = "upload"
  /\ Succeeded(data) => NextRunId <= MaxRuns
  /\ selectedImage' = FormAfterUpload(data).selectedImage
  /\ imagePreview' = FormAfterUpload(data).imagePreview
  /\ hashtags' = FormAfterUpload(data).hashtags
  /\ uploadModalOpen' = FormAfterUpload(data).uploadModalOpen
  /\ IF Succeeded(data)
       THEN /\ StartFetchPosts
            /\ uploads' = [uploads EXCEPT ![u] =
                 UploadAwaitingRefresh(@, NextRunId)]
       ELSE /\ uploads' = [uploads EXCEPT ![u].pc = "done",
                                          ![u].result = "unsuccessful",
                                          ![u].alert = AlertUnsuccessful]
            /\ UNCHANGED <<loading, runs>>
  /\ uploading' = IF uploads'[u].pc = "done" THEN FALSE ELSE uploading
  /\ UNCHANGED <<student, hashtagInput, readers>>
  /\ UNCHANGED <<posts, placedImages, imageDimensions, totalPosts,
                 trendingHashtags, searchQuery>>
  /\ UNCHANGED viewVars

\* the upload request rejects: catch and finally, lines 174-181
UploadCatch(u) ==
  /\ uploads[u].pc = "upload"
  /\ uploads' = [uploads EXCEPT ![u].pc = "done", ![u].result = "threw",
                                ![u].alert = AlertThrown]
  /\ uploading' = FALSE
  /\ UNCHANGED <<student, uploadModalOpen, selectedImage, imagePreview,
                 hashtags, hashtagInput, readers>>
  /\ UNCHANGED feedVars
  /\ UNCHANGED viewVars

\* await fetchPosts() is over: the finally block, lines 179-181 (with the
\* catch block before it, had the run let a rejection out)
UploadRefreshed(u) ==
  /\ uploads[u].pc = "refresh"
  /\ runs[uploads[u].child].pc \in {"done", "unhandled"}
  /\ uploads' = [uploads EXCEPT
       ![u].pc = "done",
       ![u].alert = IF runs[uploads[u].child].pc = "unhandled"
                      THEN AlertThrown ELSE @]
  /\ uploading' = FALSE
  /\ UNCHANGED <<student, uploadModalOpen, selectedImage, imagePreview,
                 hashtags, hashtagInput, readers>>
  /\ UNCHANGED feedVars
  /\ UNCHANGED viewVars

PageInit ==
  /\ posts = Arr(0, <<>>)
  /\ placedImages = Placed(0, <<>>)
  /\ imageDimensions = DimMap(0, {})
  /\ totalPosts = 0
  /\ trendingHashtags = <<>>
  /\ loading = TRUE
  /\ searchQuery = <<>>
  /\ runs = [r \in RunIds |-> IdleRun]
  /\ student = NullStudent
  /\ uploadModalOpen = FALSE
  /\ selectedImage = NullFile
  /\ imagePreview = NoPreview
  /\ hashtags = <<>>
  /\ hashtagInput = <<>>
  /\ uploading = FALSE
  /\ readers = [f \in Files |-> 0]
  /\ uploads = [u \in UploadIds |-> IdleUpload]

PageNext ==
  \/ Mount
  \/ \E r \in RunIds, data \in PostsData : FetchPostsData(r, data)
  \/ \E r \in RunIds, keys \in SUBSET PostIds, c \in PostIds \cup {NullCenter} :
       FetchPostsPreloaded(r, keys, c)
  \/ \E r \in RunIds : FetchPostsPlaced(r)
  \/ \E r \in RunIds, data \in TrendingData : FetchPostsTrendingData(r, data)
  \/ \E r \in RunIds : FetchPostsCatch(r)
  \/ HandleSearch
  \/ \E r \in RunIds, data \in PostsData : SearchData(r, data)
  \/ \E r \in RunIds, keys \in SUBSET PostIds, c \in PostIds \cup {NullCenter} :
       SearchPreloaded(r, keys, c)
  \/ \E r \in RunIds : SearchPlaced(r)
  \/ \E r \in RunIds : SearchCatch(r)
  \/ \E q \in Queries : SetSearchQuery(q)
  \/ \E i \in 1..3 : HandleTrendingClick(i)

\* the upload form; the posts endpoint answers with a failure here (what
\* the feed shows is the matter of PageNext and UploadNext), the trending
\* endpoint answers as it can
FormNext ==
  \/ Mount
  \/ \E r \in RunIds, data \in {d \in PostsData : ~d.success} :
       FetchPostsData(r, data)
  \/ \E r \in RunIds, data \in TrendingData : FetchPostsTrendingData(r, data)
  \/ StudentLoaded
  \/ OpenUploadModal
  \/ CloseUploadModal
  \/ \E f \in Files : HandleImageSelect(f)
  \/ \E f \in Files : ImageLoadEnd(f)
  \/ RemoveImage
  \/ \E t \in TagInputs : SetHashtagInput(t)
  \/ AddTypedHashtag
  \/ \E i \in 1..3 : AddTrendingHashtag(i)
  \/ \E t \in TagInputs : RemoveHashtag(CleanTag(t))
  \/ HandleUpload
  \/ \E u \in UploadIds, data \in UploadResponses : UploadData(u, data)
  \/ \E u \in UploadIds : UploadCatch(u)
  \/ \E u \in UploadIds : UploadRefreshed(u)

\* uploads and the fetchPosts runs around them (the preview of the chosen
\* image and the hashtags are edited in FormNext)
UploadNext ==
  \/ Mount
  \/ \E r \in RunIds, data \in PostsData : FetchPostsData(r, data)
  \/ \E r \in RunIds, keys \in SUBSET PostIds, c \in PostIds \cup {NullCenter} :
       FetchPostsPreloaded(r, keys, c)
  \/ \E r \in RunIds : FetchPostsPlaced(r)
  \/ \E r \in RunIds, data \in TrendingData : FetchPostsTrendingData(r, data)
  \/ \E r \in RunIds : FetchPostsCatch(r)
  \/ StudentLoaded
  \/ OpenUploadModal
  \/ CloseUploadModal
  \/ \E f \in Files : HandleImageSelect(f)
  \/ HandleUpload
  \/ \E u \in UploadIds, data \in UploadResponses : UploadData(u, data)
  \/ \E u \in UploadIds : UploadCatch(u)
  \/ \E u \in UploadIds : UploadRefreshed(u)

(* ---- the canvas on the page ---- *)
\* The canvas and the page together, in the order of a visit: the first
\* posts are placed, the user makes a first gesture on the canvas (before
\* or just after asking for the next posts), and the page goes on under
\* the canvas as the gesture left it.

\* at most one fetchPosts or handleSearch run at a time
OneRunAtATime == Cardinality({r \in RunIds : InFlight(r)}) <= 1

\* the upload form has not been opened
FormUntouched == ~uploadModalOpen /\ UploadsStarted = {}

\* nothing has been searched for: every run after the first is the
\* fetchPosts run of an upload
NothingSearched ==
  /\ searchQuery = <<>>
  /\ \A r \in Started \ {1} : \E u \in UploadIds : uploads[u].child = r

\* the first gesture on the canvas: pointer-downs and touch-starts, and
\* the one event that follows them
FirstGesture == handled \in {"none", "handleMouseDown", "handleTouchStart"}

\* the first run has placed its posts, and a next run, if any, still
\* waits for its posts
PostsOnDisplay ==
  /\ runs[1].pc = "done"
  /\ runs[1].outcome = "placed"
  /\ \A r \in RunIds \ {1} : runs[r].pc \in {"idle", "fetch"}
  /\ \A u \in UploadIds : uploads[u].pc \in {"idle", "upload"}

\* no gesture yet, or a drag from the origin has moved the pan to the
\* far corner
CanvasLeftMidDrag ==
  \/ handled = "none"
  \/ /\ handled = "handleMouseMove"
     /\ isDragging
     /\ dragStart = Origin
     /\ pan = [x |-> MaxCoord, y |-> MaxCoord]

FeedSteps ==
  \/ Mount
  \/ \E r \in RunIds, data \in PostsData : FetchPostsData(r, data)
  \/ \E r \in RunIds, keys \in SUBSET PostIds, c \in PostIds \cup {NullCenter} :
       FetchPostsPreloaded(r, keys, c)
  \/ \E r \in RunIds : FetchPostsPlaced(r)
  \/ \E r \in RunIds, data \in TrendingData : FetchPostsTrendingData(r, data)
  \/ \E r \in RunIds : FetchPostsCatch(r)

SearchSteps ==
  \/ HandleSearch
  \/ \E r \in RunIds, data \in PostsData : SearchData(r, data)
  \/ \E r \in RunIds, keys \in SUBSET PostIds, c \in PostIds \cup {NullCenter} :
       SearchPreloaded(r, keys, c)
  \/ \E r \in RunIds : SearchPlaced(r)
  \/ \E r \in RunIds : SearchCatch(r)
  \/ \E q \in Queries : SetSearchQuery(q)

UploadSteps ==
  \/ StudentLoaded
  \/ OpenUploadModal
  \/ \E f \in Files : HandleImageSelect(f)
  \/ HandleUpload
  \/ \E u \in UploadIds, data \in UploadResponses : UploadData(u, data)
  \/ \E u \in UploadIds : UploadCatch(u)
  \/ \E u \in UploadIds : UploadRefreshed(u)

CanvasPageNext ==
  \/ FirstGesture /\ PostsOnDisplay /\ ViewNext
  \/ CanvasLeftMidDrag /\ FeedSteps /\ OneRunAtATime'
  \/ CanvasLeftMidDrag /\ FormUntouched /\ SearchSteps /\ OneRunAtATime'
  \/ CanvasLeftMidDrag /\ NothingSearched /\ UploadSteps /\ OneRunAtATime'

(* ------------------------------------------------------------------ *)
(* Specifications                                                       *)
(* ------------------------------------------------------------------ *)
Init == ViewInit /\ PageInit
Next == ViewNext \/ PageNext \/ FormNext \/ UploadNext
Spec == Init /\ [][Next]_vars
\* the canvas alone, and the page alone
ViewSpec == Init /\ [][ViewNext]_vars
PageSpec == Init /\ [][PageNext]_vars
\* the upload form alone, and the uploads with their refresh
FormSpec == Init /\ [][FormNext]_vars
UploadSpec == Init /\ [][UploadNext]_vars
\* the canvas on the page
CanvasPageSpec == Init /\ [][CanvasPageNext]_vars

(* ------------------------------------------------------------------ *)
(* Properties of the viewport (checked under ViewSpec)                  *)
(* ------------------------------------------------------------------ *)
ClampTo(v, lo, hi) == IF v < lo THEN lo ELSE IF v > hi THEN hi ELSE v
Plus(p, q) == [x |-> p.x + q.x, y |-> p.y + q.y]
Minus(p, q) == [x |-> p.x - q.x, y |-> p.y - q.y]
ClientPoint(e) == [x |-> e.clientX, y |-> e.clientY]

\* C1: in every reachable state of the viewport the scale factor lies in
\* [0.3, 3.0], whatever the magnitude and sign of the wheel deltas.
C1_ScaleInRange == 300 <= scale /\ scale <= 3000

\* a wheel event has driven the scale to the upper end; the pan is off origin
C1_Witness ==
  handled = "handleWheel" /\ scale = 3000 /\ pan # Origin

\* C2: while a drag is in progress, a pointer move at p leaves
\* pan = (pan at pointer-down) + (p - pointer-down position), whatever the
\* moves before it were.
C2_PanFromAnchor ==
  [][/\ isDragging /\ handled' = "handleMouseMove" =>
          \A e \in MouseMoveEvents :
            HandleMouseMove(e)
              => pan' = Plus(anchor.pan, Minus(ClientPoint(e), anchor.pos))
     /\ isDragging /\ handled' = "handleTouchMove" =>
          \A e \in TouchMoveEvents :
            Len(e.touches) = 1 /\ HandleTouchMove(e)
              => pan' = Plus(anchor.pan, Minus(e.touches[1], anchor.pos))]_vars

\* a move during a drag that began with the pan already off origin
C2_Witness ==
  /\ handled = "handleMouseMove"
  /\ isDragging
  /\ anchor.pan # Origin
  /\ pan # anchor.pan

\* C3: the reset action, from any viewport state, sets pan to (0,0) and scale
\* to the default value 1.
C3_ResetRestores ==
  handled = "resetView" => pan = Origin /\ scale = 1000

\* a reset in the middle of a drag whose anchor is off origin
C3_Witness ==
  handled = "resetView" /\ isDragging /\ dragStart # Origin

\* C4: pointer-up, pointer-leave and touch-end end the drag; from then on no
\* pointer move or touch move changes pan, and only a left pointer-down or a
\* single-touch start begins a drag again.
C4_DragEnds ==
  /\ [](handled \in {"handleMouseUp", "handleMouseLeave", "handleTouchEnd"}
          => ~isDragging)
  /\ [][~isDragging /\ handled' \in {"handleMouseMove", "handleTouchMove"}
          => pan' = pan]_vars
  /\ [][~isDragging /\ isDragging'
          => handled' \in {"handleMouseDown", "handleTouchStart"}]_vars

\* a move after the drag ended, at a pan that no move of a drag from the
\* present anchor could have produced
C4_Witness ==
  /\ handled = "handleMouseMove"
  /\ ~isDragging
  /\ \A p \in Point : pan # Minus(p, dragStart)

\* C5: a wheel event sets scale to clamp(scale - 0.001 * deltaY, 0.3, 3) and
\* leaves pan, the drag flag and the drag-start anchor as they were, during a
\* drag as well as outside one.
C5_WheelOnlyScales ==
  [][handled' = "handleWheel" =>
       /\ UNCHANGED <<pan, isDragging, dragStart>>
       /\ \A e \in WheelEvents :
            HandleWheel(e) => scale' = ClampTo(scale - e.deltaY, 300, 3000)]_vars

\* a wheel event during a drag, ending strictly inside the range
C5_Witness ==
  /\ handled = "handleWheel"
  /\ isDragging
  /\ pan # Origin
  /\ scale \notin {300, 3000}

\* C6: touch mirrors mouse.  In every reachable state a single-touch start,
\* move or end leaves the same pan, drag flag and drag-start anchor as a
\* left-button mouse-down, move or up at the same coordinates; the two start
\* from the same state, so event by event the two sequences stay equal.
C6_TouchMirrorsMouse ==
  /\ \A p \in Point :
       /\ TouchStartEffect(Event(0, Origin, TouchList(p, 1), 0))
            = MouseDownEffect(Event(LeftButton, p, <<>>, 0))
       /\ TouchMoveEffect(Event(0, Origin, TouchList(p, 1), 0))
            = MouseMoveEffect(Event(0, p, <<>>, 0))
  /\ TouchEndEffect = MouseUpEffect

\* a touch drag has moved the pan, from a start with the pan off origin
C6_Witness ==
  /\ handled = "handleTouchMove"
  /\ isDragging
  /\ anchor.pan # Origin
  /\ pan # anchor.pan

(* ------------------------------------------------------------------ *)
(* Properties of the page pipeline (checked under PageSpec)             *)
(* ------------------------------------------------------------------ *)
Latest == Cardinality(Started)
PlacementCalls == {"pickRandomCenter", "calculateCircularPlacement"}

\* C7: in every fetch-all or search run, calculateCircularPlacement is called
\* only after that run's preloadImageDimensions has resolved, with the post
\* list that was preloaded and the dimension map that this preload returned.
C7_PlacementAfterOwnPreload ==
  \A r \in RunIds :
    runs[r].placeCall # NoCall =>
      /\ runs[r].pc = "place"
      /\ runs[r].dimensions # NullMap
      /\ runs[r].placeCall.dims = runs[r].dimensions
      /\ runs[r].placeCall.dims.id = r
      /\ runs[r].placeCall.posts = runs[r].preloadArg
      /\ runs[r].placeCall.posts.id = r

\* a placement call in flight while the page state holds the post list and
\* the dimension map of another run
C7_Witness ==
  \E r \in RunIds :
    /\ runs[r].pc = "place"
    /\ posts.id \notin {0, r}
    /\ imageDimensions.id \notin {0, r}

\* C8: once all runs have completed, posts, imageDimensions and placedImages
\* hold the results of the most recently triggered run (here: whenever that
\* run fetched, preloaded and placed a non-empty list), for every
\* interleaving of the runs.
C8_LatestRunWins ==
  /\ Started # {}
  /\ \A r \in RunIds : ~InFlight(r)
  /\ runs[Latest].outcome = "placed"
  => /\ posts.id = Latest
     /\ imageDimensions.id = Latest
     /\ placedImages.id = Latest

\* C9: in every state between handler steps, posts, imageDimensions and
\* placedImages derive from the same fetch/search cycle.
C9_SameCycle ==
  /\ posts.id = imageDimensions.id
  /\ posts.id = placedImages.id

\* C10: a run that receives a successful answer with zero posts leaves
\* placedImages empty and calls neither pickRandomCenter nor
\* calculateCircularPlacement, whatever was placed before.
C10_EmptyClearsPlacement ==
  [][\A r \in RunIds :
       runs[r].outcome = "none" /\ runs'[r].outcome = "empty"
         => /\ placedImages'.items = <<>>
            /\ runs'[r].calls \cap PlacementCalls = {}]_vars

\* C11: a rejection of any await of a fetchPosts or handleSearch run is
\* caught inside that run and never leaves the function; and the step
\* with which a fetchPosts run ends, by returning or through its catch
\* block, leaves loading = false.
C11_FailuresCaught ==
  /\ [](\A r \in RunIds : runs[r].pc # "unhandled")
  /\ [][\A r \in RunIds :
          runs[r].kind = "fetchPosts" /\ InFlight(r) /\ ~InFlight(r)'
            => loading' = FALSE]_vars

\* a fetchPosts run ended in its catch block after its posts were shown,
\* and a handleSearch run ended in its own
C11_Witness ==
  /\ ~loading
  /\ \E r \in RunIds :
       /\ runs[r].kind = "fetchPosts"
       /\ runs[r].outcome = "caught"
       /\ runs[r].pc = "done"
  /\ \E r \in RunIds :
       /\ runs[r].kind = "handleSearch"
       /\ runs[r].outcome = "caught"
       /\ runs[r].pc = "done"

(* ------------------------------------------------------------------ *)
(* Further properties of the viewport (checked under ViewSpec)          *)
(* ------------------------------------------------------------------ *)
\* C15: a touch-start with a number of touch points other than one changes
\* neither pan, scale, the drag flag nor the drag-start anchor, and a
\* touch-move with a number of touch points other than one leaves pan as it
\* was, during a drag as well as outside one.
C15_MultiTouchIgnored ==
  /\ [][handled' = "handleTouchStart" =>
          \/ UNCHANGED <<pan, scale, isDragging, dragStart>>
          \/ ~ \E e \in TouchStartEvents :
                 Len(e.touches) # 1 /\ HandleTouchStart(e)]_vars
  /\ [][handled' = "handleTouchMove" =>
          \/ pan' = pan
          \/ ~ \E e \in TouchMoveEvents :
                 Len(e.touches) # 1 /\ HandleTouchMove(e)]_vars

\* a touch-move during a drag that no single touch can have caused: the
\* pan it left is not (touch point - anchor) for any touch point
C15_Witness ==
  /\ handled = "handleTouchMove"
  /\ isDragging
  /\ \A q \in Point : pan # Minus(q, dragStart)

\* C19: the reset action does not end a drag: it leaves the drag flag and the
\* drag-start anchor as they were, so the first pointer move after a reset
\* in the middle of a drag sets pan to the pointer position minus the anchor
\* captured at pointer-down.
C19_ResetKeepsDrag ==
  /\ [][handled' = "resetView" => UNCHANGED <<isDragging, dragStart>>]_vars
  /\ [][isDragging /\ handled = "resetView" /\ handled' = "handleMouseMove" =>
          \A e \in MouseMoveEvents :
            HandleMouseMove(e)
              => pan' = Minus(ClientPoint(e), Minus(anchor.pos, anchor.pan))]_vars

\* a reset in the middle of a drag that began with the pan off origin, with
\* a pointer move enabled that takes the pan away from the origin again
C19_Witness ==
  /\ handled = "resetView"
  /\ isDragging
  /\ anchor.pan # Origin
  /\ dragStart = Minus(anchor.pos, anchor.pan)
  /\ \E q \in Point :
       /\ PanInRange(Minus(q, dragStart))
       /\ Minus(q, dragStart) # Origin

(* ------------------------------------------------------------------ *)
(* Further properties of the page pipeline (checked under PageSpec)     *)
(* ------------------------------------------------------------------ *)
\* C17: a posts response of a fetchPosts or handleSearch run that reports
\* failure leaves posts, imageDimensions, placedImages and totalPosts as
\* they were, and so does every later step of that run, whereas a
\* successful response with zero posts replaces posts with a new empty
\* list; and no step of a handleSearch run changes totalPosts,
\* trendingHashtags or loading.
C17_UnsuccessfulKeepsStale ==
  [][\A r \in RunIds :
       /\ runs[r].pc = "fetch" /\ runs'[r].pc # "fetch" =>
            \A data \in PostsData :
              FetchPostsData(r, data) \/ SearchData(r, data) =>
                IF data.success
                  THEN data.posts = <<>> => posts' = Arr(r, <<>>)
                  ELSE UNCHANGED <<posts, imageDimensions, placedImages,
                                   totalPosts>>
       /\ runs[r].outcome = "unsuccessful" /\ runs'[r] # runs[r] =>
            UNCHANGED <<posts, imageDimensions, placedImages, totalPosts>>
       /\ runs'[r].kind = "handleSearch" /\ runs'[r] # runs[r] =>
            UNCHANGED <<totalPosts, trendingHashtags, loading>>]_vars

\* a handleSearch run was answered with a failure while the posts, the
\* total and the trending hashtags of an earlier fetchPosts run were on
\* display, and they still are
C17_Witness ==
  \E r \in RunIds :
    /\ runs[r].kind = "handleSearch"
    /\ runs[r].outcome = "unsuccessful"
    /\ posts.items # <<>>
    /\ placedImages.items # <<>>
    /\ totalPosts > 0
    /\ trendingHashtags # <<>>
    /\ ~loading

\* C18: in every reachable state in which at least one fetchPosts run is
\* in flight, loading is true, also when several fetchPosts runs overlap
\* and finish in any order.
C18_LoadingWhileInFlight ==
  (\E r \in RunIds : runs[r].kind = "fetchPosts" /\ InFlight(r)) => loading

(* ------------------------------------------------------------------ *)
(* Properties of the upload form (checked under FormSpec)               *)
(* ------------------------------------------------------------------ *)
\* C12: the step with which an upload fails, by an unsuccessful answer or
\* by a rejected request, leaves selectedImage, imagePreview, hashtags and
\* uploadModalOpen as they were (as the start of the upload did), passes a
\* message to alert(), starts no fetchPosts run and returns uploading to
\* false.
C12_FailedUploadKeepsForm ==
  [][\A u \in UploadIds :
       /\ uploads[u].pc = "idle" /\ uploads'[u].pc = "upload" =>
            UNCHANGED <<selectedImage, imagePreview, hashtags, uploadModalOpen>>
       /\ uploads[u].pc = "upload"
            /\ uploads'[u].result \in {"unsuccessful", "threw"} =>
              /\ UNCHANGED <<selectedImage, imagePreview, hashtags,
                             uploadModalOpen>>
              /\ uploads'[u].alert \in {AlertUnsuccessful, AlertThrown}
              /\ uploads'[u].child = 0
              /\ UNCHANGED <<runs, loading>>
              /\ uploading' = FALSE]_vars

\* an upload has failed and a second one has been rejected, with the image,
\* its preview and two hashtags still in the open form
C12_Witness ==
  /\ \E u \in UploadIds :
       uploads[u].pc = "done" /\ uploads[u].result = "unsuccessful"
  /\ \E u \in UploadIds :
       uploads[u].pc = "done" /\ uploads[u].result = "threw"
  /\ selectedImage # NullFile
  /\ imagePreview # NoPreview
  /\ Len(hashtags) = 2
  /\ uploadModalOpen
  /\ ~uploading

\* C14: in every reachable state the pending hashtag list holds no tag
\* twice and no empty tag; addHashtag of a text whose cleaned form
\* (trimmed, one leading '#' stripped, lowercased) is empty or already in
\* the list leaves the list as it was, and addHashtag of any other text
\* appends the cleaned form at the end.
C14_HashtagsDistinct ==
  /\ [](\A i, j \in 1..Len(hashtags) :
          /\ hashtags[i] # <<>>
          /\ hashtags[i] = hashtags[j] => i = j)
  /\ [][AddTypedHashtag =>
          IF CleanTag(hashtagInput) \in Range(hashtags) \cup {<<>>}
            THEN hashtags' = hashtags
            ELSE hashtags' = Append(hashtags, CleanTag(hashtagInput))]_vars
  /\ [][\A i \in 1..Len(trendingHashtags) :
          AddTrendingHashtag(i) =>
            hashtags' = Append(hashtags, trendingHashtags[i].hashtag)]_vars

\* after a successful upload emptied the list, two tags were added, and
\* the text in the field is another spelling of one of them
C14_Witness ==
  /\ \E u \in UploadIds : uploads[u].result = "success"
  /\ trendingHashtags # <<>>
  /\ Len(hashtags) = 2
  /\ hashtagInput # <<>>
  /\ hashtagInput \notin Range(hashtags)
  /\ CleanTag(hashtagInput) \in Range(hashtags)

\* C20: in every reachable state at most one invocation of handleUpload is
\* in flight; while one is, from its start to the end of its finally block
\* (the fetchPosts run it awaits included), uploading is true and the
\* Upload button is disabled; and the button is disabled whenever no image
\* is selected.
C20_OneUploadAtATime ==
  /\ Cardinality(UploadsInFlight) <= 1
  /\ UploadsInFlight # {} => uploading /\ ~UploadEnabled
  /\ selectedImage = NullFile => ~UploadEnabled

\* an upload awaits its fetchPosts run while the user has opened the form
\* again and chosen the next image: nothing but uploading keeps the Upload
\* button from starting a second upload
C20_Witness ==
  /\ \E u \in UploadIds : uploads[u].pc = "refresh"
  /\ uploadModalOpen
  /\ selectedImage # NullFile
  /\ student # NullStudent
  /\ NextUploadId <= MaxUploads

(* ------------------------------------------------------------------ *)
(* Properties of the uploads (checked under UploadSpec)                 *)
(* ------------------------------------------------------------------ *)
\* C13: the step of handleUpload that receives a successful answer starts
\* a fetchPosts run of its own; as long as that run is in flight uploading
\* stays true, and when the handler is done the run has returned.
C13_SuccessfulUploadRefreshes ==
  /\ [][\A u \in UploadIds :
          uploads[u].pc = "upload" /\ uploads'[u].result = "success" =>
            /\ uploads'[u].child \in RunIds
            /\ runs[uploads'[u].child].pc = "idle"
            /\ runs'[uploads'[u].child].kind = "fetchPosts"
            /\ runs'[uploads'[u].child].pc = "fetch"]_vars
  /\ [](\A u \in UploadIds :
          uploads[u].result = "success" =>
            /\ uploads[u].child \in RunIds
            /\ InFlight(uploads[u].child) => uploading
            /\ uploads[u].pc = "done" => runs[uploads[u].child].pc = "done")

\* an upload succeeded, its fetchPosts run fetched, preloaded and placed the
\* posts now on display, and only then uploading went back to false
C13_Witness ==
  \E u \in UploadIds :
    /\ uploads[u].result = "success"
    /\ uploads[u].pc = "done"
    /\ runs[uploads[u].child].outcome = "placed"
    /\ placedImages.id = uploads[u].child
    /\ ~uploading

(* ------------------------------------------------------------------ *)
(* Properties of the canvas on the page (checked under CanvasPageSpec)  *)
(* ------------------------------------------------------------------ *)
\* C16: a step that is a viewport event (it changes the canvas state or the
\* handler that ran last) changes none of posts, imageDimensions and
\* placedImages and starts or advances no run; and a step of a fetchPosts
\* or handleSearch run or of an upload changes none of pan, scale, the drag
\* flag and the drag-start anchor.
C16_CanvasDecoupled ==
  [][/\ <<pan, scale, isDragging, dragStart, handled>>'
          # <<pan, scale, isDragging, dragStart, handled>>
          => UNCHANGED <<posts, imageDimensions, placedImages, runs, uploads>>
     /\ <<runs, uploads>>' # <<runs, uploads>>
          => UNCHANGED <<pan, scale, isDragging, dragStart>>]_vars

\* a drag has moved the pan off the origin while posts were on display, and
\* under it a later run has fetched, preloaded and placed its own posts
C16_Witness ==
  /\ handled = "handleMouseMove"
  /\ isDragging
  /\ pan # Origin
  /\ \E r \in RunIds \ {1} :
       /\ runs[r].pc = "done"
       /\ runs[r].outcome = "placed"
       /\ placedImages.id = r
       /\ posts.id = r

(* ------------------------------------------------------------------ *)
(* Last properties of the viewport and of the search                    *)
(* ------------------------------------------------------------------ *)
\* C21 (checked under ViewSpec): a mouse-down with a button other than the
\* left one starts no drag: it leaves pan, scale, the drag flag and the
\* drag-start anchor as they were.
C21_OtherButtonsIgnored ==
  [][handled' = "handleMouseDown" =>
       \/ UNCHANGED <<pan, scale, isDragging, dragStart>>
       \/ ~ \E e \in MouseDownEvents :
              e.button # LeftButton /\ HandleMouseDown(e)]_vars

\* a mouse-down that left no drag behind, on a canvas that had been panned
\* and zoomed
C21_Witness ==
  /\ handled = "handleMouseDown"
  /\ ~isDragging
  /\ pan # Origin
  /\ scale # InitScale

\* C22 (checked under PageSpec): a search with a query that is empty or
\* consists of spaces only starts exactly one run, a fetchPosts run, and
\* sends no hashtag request; a search with any other query starts exactly
\* one run, a handleSearch run waiting for its hashtag request, and no
\* fetchPosts run.  (After the first render a run is started by a search
\* only.)
C22_BlankSearchFetchesAll ==
  [][Started # {} /\ Started' # Started =>
       /\ Cardinality(Started' \ Started) = 1
       /\ \A r \in Started : runs'[r] = runs[r]
       /\ \A r \in Started' \ Started :
            /\ runs'[r].pc = "fetch"
            /\ runs'[r].kind =
                 IF \A i \in 1..Len(searchQuery) : searchQuery[i] = " "
                   THEN "fetchPosts"
                   ELSE "handleSearch"]_vars

\* a search with a query of spaces has started a second fetchPosts run
C22_Witness ==
  /\ searchQuery # <<>>
  /\ \A i \in 1..Len(searchQuery) : searchQuery[i] = " "
  /\ Latest = 2
  /\ runs[2].kind = "fetchPosts"

====
